---- MODULE Spec2Model ----
(***************************************************************************)
(* Model of the pull-request labeler action: run() and its helpers         *)
(* getLabelGlobMapFromObject, checkGlobs and updateLabels.                  *)
(*                                                                         *)
(* Strings that are matched (file names, titles, globs) are sequences of   *)
(* one-character strings.  A YAML value is a record [typeof, val] carrying *)
(* the result of JavaScript's typeof and the value's text.                 *)
(***************************************************************************)
EXTENDS Integers, Sequences, FiniteSets, TLC

VARIABLES
    pc,                \* position of run()
    inputs,            \* TRUE iff the required action inputs are supplied
    prNumber,          \* github.context.payload.pull_request.number, 0 = absent
    action,            \* github.context.payload.action
    changedFiles,      \* result of getChangedFiles
    prTitle,           \* getPrInfo()[0]
    current_labels,    \* getPrInfo()[1]
    mergeable,         \* getPrInfo()[2]: "true", "false" or "null"
    configObject,      \* the loaded YAML mapping, in key order
    labelGlobs,        \* Map<LabelerKey, string[]> in insertion order
    idx,               \* number of map entries the for loop has consumed
    labels_to_add,
    labels_to_remove,
    replaceCalls,      \* number of client.issues.replaceLabels requests
    submitted,         \* the labels argument of the last replaceLabels request
    failed,            \* core.setFailed was called
    message,           \* the argument of core.setFailed
    again              \* the labels a second updateLabels call computes from submitted

vars == <<pc, inputs, prNumber, action, changedFiles, prTitle, current_labels,
          mergeable, configObject, labelGlobs, idx, labels_to_add,
          labels_to_remove, replaceCalls, submitted, failed, message, again>>

(***************************************************************************)
(* Bounds and input pools                                                  *)
(***************************************************************************)
MaxRules == 2
MaxPatterns == 1
MaxFiles == 1
MaxCurrent == 2
MaxList == 2

Labels == {"bug", "stale"}
Strings == {<<"a", "b">>, <<"b">>}
Globs == {<<"a", "*">>, <<"b">>}
Actions == {"opened", "synchronize"}
Mergeables == {"true", "false", "null"}

\* Sequences over S of length at most n
RECURSIVE SeqsUpTo(_, _)
SeqsUpTo(S, n) ==
    IF n = 0 THEN {<<>>}
    ELSE LET shorter == SeqsUpTo(S, n - 1)
         IN shorter \cup {Append(s, x) : s \in {t \in shorter : Len(t) = n - 1}, x \in S}

Range(s) == {s[i] : i \in 1..Len(s)}
NoDup(s) == \A i, j \in 1..Len(s) : s[i] = s[j] => i = j

(***************************************************************************)
(* YAML values                                                             *)
(***************************************************************************)
Undefined == [typeof |-> "undefined", val |-> ""]
Number == [typeof |-> "number", val |-> "1"]
Str(s) == [typeof |-> "string", val |-> s]
Bool(b) == [typeof |-> "boolean", val |-> b]

\* an element of a patterns array: a glob string or a number
GlobItem(g) == [isString |-> TRUE, chars |-> g]
NumberItem == [isString |-> FALSE, chars |-> <<>>]
Items == {GlobItem(g) : g \in Globs} \cup {NumberItem}

RawTypes == {Undefined, Number} \cup
            {Str(s) : s \in {"filesChanged", "title", "mergeState", "alwaysRemove", "bogus"}}
RawBools == {Undefined, Bool("true"), Bool("false")}
RawPatterns == {[kind |-> "undefined", items |-> <<>>], [kind |-> "number", items |-> <<>>]}
               \cup {[kind |-> "string", items |-> <<GlobItem(g)>>] : g \in Globs}
               \cup {[kind |-> "array", items |-> s] : s \in SeqsUpTo(Items, MaxPatterns)}

Bodies == [type : RawTypes, removable : RawBools, opened_only : RawBools,
           patterns : RawPatterns]

\* the well-formed bodies: a recognised or absent type, removable absent or
\* true, no opened_only, patterns absent or the single glob CoreGlob
CoreGlob == <<"a", "*">>
CoreBodies == {b \in Bodies :
                  /\ b.type \in {Undefined, Str("title"), Str("mergeState"), Str("alwaysRemove")}
                  /\ b.removable \in {Undefined, Bool("true")}
                  /\ b.opened_only = Undefined
                  /\ b.patterns \in {[kind |-> "undefined", items |-> <<>>],
                                     [kind |-> "string", items |-> <<GlobItem(CoreGlob)>>]}}

\* YAML mappings (keys are unique) of at most n entries with bodies in B, in
\* key order
ConfigsOver(B, n) ==
    {c \in SeqsUpTo([label : Labels, body : B], n) :
        \A i, j \in 1..Len(c) : c[i].label = c[j].label => i = j}

\* every mapping of one entry, and the well-formed mappings of MaxRules entries
ConfigObjects == ConfigsOver(Bodies, 1) \cup ConfigsOver(CoreBodies, MaxRules)

(***************************************************************************)
(* LabelerKey and getLabelGlobMapFromObject                                *)
(***************************************************************************)
LabelerKey(label, type, removable, opened_only) ==
    [type |-> type, label |-> label, removable |-> removable, opened_only |-> opened_only]

\* let keytype = filesChanged; if (typeof type === "string") keytype = type
keytypeOf(body) ==
    IF body.type.typeof = "string" THEN body.type.val ELSE "filesChanged"

\* let flag = false; if (typeof field === "boolean") flag = field
flagOf(field) ==
    IF field.typeof = "boolean" THEN field.val = "true" ELSE FALSE

NotApplicable == <<[isString |-> TRUE, chars |-> <<"not applicable">>]>>

PatternError(label) ==
    [text |-> "found unexpected type for label patterns (should be string or array of globs)",
     label |-> label]

\* one iteration of the for-in loop: the entry to set, or the error to throw
parseEntry(entry) ==
    LET body == entry.body
        keytype == keytypeOf(body)
        key == LabelerKey(entry.label, keytype, flagOf(body.removable),
                          flagOf(body.opened_only))
    IN IF body.patterns.kind = "string"
       THEN [threw |-> FALSE, key |-> key, globs |-> body.patterns.items]
       ELSE IF body.patterns.kind = "array"
       THEN [threw |-> FALSE, key |-> key, globs |-> body.patterns.items]
       ELSE IF keytype = "alwaysRemove" \/ keytype = "mergeState"
       THEN [threw |-> FALSE, key |-> key, globs |-> NotApplicable]
       ELSE [threw |-> TRUE, key |-> key, globs |-> <<>>]

RECURSIVE parseFrom(_, _, _)
parseFrom(cfg, i, map) ==
    IF i > Len(cfg) THEN [threw |-> FALSE, label |-> "", map |-> map]
    ELSE LET r == parseEntry(cfg[i])
         IN IF r.threw
            THEN [threw |-> TRUE, label |-> cfg[i].label, map |-> <<>>]
            ELSE parseFrom(cfg, i + 1, Append(map, [key |-> r.key, globs |-> r.globs]))

getLabelGlobMapFromObject(cfg) == parseFrom(cfg, 1, <<>>)

(***************************************************************************)
(* checkGlobs                                                              *)
(***************************************************************************)
\* Minimatch.match over the characters of the model: "*" matches any run
RECURSIVE Match(_, _)
Match(glob, s) ==
    IF glob = <<>> THEN s = <<>>
    ELSE IF Head(glob) = "*"
    THEN Match(Tail(glob), s) \/ (s # <<>> /\ Match(glob, Tail(s)))
    ELSE s # <<>> /\ Head(s) = Head(glob) /\ Match(Tail(glob), Tail(s))

\* the inner loop: the first candidate the matcher accepts returns true
RECURSIVE matchAny(_, _, _)
matchAny(glob, candidates, j) ==
    IF j > Len(candidates) THEN FALSE
    ELSE IF Match(glob, candidates[j]) THEN TRUE
    ELSE matchAny(glob, candidates, j + 1)

\* the outer loop: "true", "false", or "throw" when new Minimatch(glob)
\* rejects a glob that is not a string
RECURSIVE checkGlobsFrom(_, _, _)
checkGlobsFrom(candidates, globs, i) ==
    IF i > Len(globs) THEN "false"
    ELSE IF ~globs[i].isString THEN "throw"
    ELSE IF matchAny(globs[i].chars, candidates, 1) THEN "true"
    ELSE checkGlobsFrom(candidates, globs, i + 1)

checkGlobs(candidates, globs) == checkGlobsFrom(candidates, globs, 1)

GlobError == [text |-> "glob pattern string required", label |-> ""]

(***************************************************************************)
(* updateLabels                                                            *)
(***************************************************************************)
\* [...new Set(s)]: the first occurrence of every element, in order
RECURSIVE SetOrder(_)
SetOrder(s) ==
    IF s = <<>> THEN <<>>
    ELSE LET front == SetOrder(SubSeq(s, 1, Len(s) - 1))
             last == s[Len(s)]
         IN IF last \in Range(front) THEN front ELSE Append(front, last)

\* Array.prototype.filter(p => !labels_to_remove.includes(p))
RECURSIVE FilterOut(_, _)
FilterOut(s, remove) ==
    IF s = <<>> THEN <<>>
    ELSE IF Head(s) \in Range(remove) THEN FilterOut(Tail(s), remove)
    ELSE <<Head(s)>> \o FilterOut(Tail(s), remove)

\* faulty variant: the filter is forgotten
resulting_labels_noFilter(current, toAdd, toRemove) ==
    SetOrder(current \o toAdd)

\* faulty variant: the Set is forgotten
resulting_labels_noSet(current, toAdd, toRemove) ==
    FilterOut(current \o toAdd, toRemove)

\* faulty variant: the filter is applied to the current labels, before the union
resulting_labels_filterFirst(current, toAdd, toRemove) ==
    SetOrder(FilterOut(current, toRemove) \o toAdd)

resulting_labels(current, toAdd, toRemove) ==
    FilterOut(SetOrder(current \o toAdd), toRemove)

(***************************************************************************)
(* run()                                                                   *)
(***************************************************************************)
NoMessage == [text |-> "", label |-> ""]
InputError == [text |-> "Input required and not supplied", label |-> ""]
YamlError == [text |-> "bad indentation of a mapping entry", label |-> ""]
ProviderErrors == {[text |-> "Not Found", label |-> ""],
                   [text |-> "Bad credentials", label |-> ""]}

PrNumbers == {0, 7}
FileLists == {f \in SeqsUpTo(Strings, MaxFiles) : NoDup(f)}
LabelLists == {l \in SeqsUpTo(Labels, MaxCurrent) : NoDup(l)}

\* faulty variant: the run fails with a fixed text instead of the error's message
Catch_fixedMessage(error) ==
    /\ failed' = TRUE
    /\ message' = [text |-> "Action failed", label |-> ""]
    /\ pc' = "done"

\* catch (error) { core.error(error); core.setFailed(error.message); }
Catch(error) ==
    /\ failed' = TRUE
    /\ message' = error
    /\ pc' = "done"

\* what one loop iteration appends to the two lists
AddLabel(key) == [threw |-> FALSE, add |-> <<key.label>>, remove |-> <<>>]
RemoveLabel(key) == [threw |-> FALSE, add |-> <<>>, remove |-> <<key.label>>]
NoLabel == [threw |-> FALSE, add |-> <<>>, remove |-> <<>>]
Thrown == [threw |-> TRUE, add |-> <<>>, remove |-> <<>>]

\* faulty variant: alwaysRemove keys are processed whatever the action
skipped_notAlwaysRemove(key, act) ==
    key.opened_only /\ act # "opened" /\ key.type # "alwaysRemove"

\* if (label.opened_only && action !== "opened") continue
skipped(key, act) == key.opened_only /\ act # "opened"

\* faulty variant: only an explicit false counts, null does not
notMergeable_falseOnly(merge) == merge = "false"

\* !mergeable
notMergeable(merge) == merge # "true"

\* if (<condition>) add; else if (label.removable) remove
onCondition(condition, key) ==
    IF condition THEN AddLabel(key)
    ELSE IF key.removable THEN RemoveLabel(key)
    ELSE NoLabel

\* the same with checkGlobs as the condition, which may throw
onGlobs(result, key) ==
    IF result = "throw" THEN Thrown ELSE onCondition(result = "true", key)

\* faulty variant: alwaysRemove removes only when the key is removable
evaluate_removableOnly(key, globs, files, title, merge, act) ==
    IF skipped(key, act) THEN NoLabel
    ELSE IF key.type = "filesChanged" THEN onGlobs(checkGlobs(files, globs), key)
    ELSE IF key.type = "alwaysRemove" THEN onCondition(FALSE, key)
    ELSE IF key.type = "mergeState" THEN onCondition(notMergeable(merge), key)
    ELSE IF key.type = "title" THEN onGlobs(checkGlobs(<<title>>, globs), key)
    ELSE NoLabel

\* the body of the for loop for one map entry: the switch has no default, a
\* type outside LabelType falls through
evaluate(key, globs, files, title, merge, act) ==
    IF skipped(key, act) THEN NoLabel
    ELSE IF key.type = "filesChanged" THEN onGlobs(checkGlobs(files, globs), key)
    ELSE IF key.type = "alwaysRemove" THEN RemoveLabel(key)
    ELSE IF key.type = "mergeState" THEN onCondition(notMergeable(merge), key)
    ELSE IF key.type = "title" THEN onGlobs(checkGlobs(<<title>>, globs), key)
    ELSE NoLabel

Init ==
    /\ pc = "start"
    /\ inputs \in BOOLEAN
    /\ prNumber \in PrNumbers
    /\ action \in Actions
    /\ changedFiles = <<>>
    /\ prTitle = <<>>
    /\ current_labels = <<>>
    /\ mergeable = "null"
    /\ configObject = <<>>
    /\ labelGlobs = <<>>
    /\ idx = 0
    /\ labels_to_add = <<>>
    /\ labels_to_remove = <<>>
    /\ replaceCalls = 0
    /\ submitted = <<>>
    /\ failed = FALSE
    /\ message = NoMessage
    /\ again = <<>>

\* core.getInput(..., {required: true}) throws when an input is missing
MissingInput ==
    /\ pc = "start"
    /\ ~inputs
    /\ Catch(InputError)
    /\ UNCHANGED <<inputs, prNumber, action, changedFiles, prTitle, current_labels,
                   mergeable, configObject, labelGlobs, idx, labels_to_add,
                   labels_to_remove, replaceCalls, submitted, again>>

\* if (!prNumber) return
NoPrNumber ==
    /\ pc = "start"
    /\ inputs
    /\ prNumber = 0
    /\ pc' = "done"
    /\ UNCHANGED <<inputs, prNumber, action, changedFiles, prTitle, current_labels,
                   mergeable, configObject, labelGlobs, idx, labels_to_add,
                   labels_to_remove, replaceCalls, submitted, failed, message,
                   again>>

Begin ==
    /\ pc = "start"
    /\ inputs
    /\ prNumber # 0
    /\ pc' = "getChangedFiles"
    /\ UNCHANGED <<inputs, prNumber, action, changedFiles, prTitle, current_labels,
                   mergeable, configObject, labelGlobs, idx, labels_to_add,
                   labels_to_remove, replaceCalls, submitted, failed, message,
                   again>>

GetChangedFiles ==
    /\ pc = "getChangedFiles"
    /\ \E files \in FileLists :
          /\ changedFiles' = files
          /\ pc' = "getPrInfo"
    /\ UNCHANGED <<inputs, prNumber, action, prTitle, current_labels,
                   mergeable, configObject, labelGlobs, idx, labels_to_add,
                   labels_to_remove, replaceCalls, submitted, failed, message,
                   again>>

GetChangedFilesFails ==
    /\ pc = "getChangedFiles"
    /\ \E e \in ProviderErrors : Catch(e)
    /\ UNCHANGED <<inputs, prNumber, action, changedFiles, prTitle, current_labels,
                   mergeable, configObject, labelGlobs, idx, labels_to_add,
                   labels_to_remove, replaceCalls, submitted, again>>

GetPrInfo ==
    /\ pc = "getPrInfo"
    /\ \E title \in Strings, labels \in LabelLists, m \in Mergeables :
          /\ prTitle' = title
          /\ current_labels' = labels
          /\ mergeable' = m
          /\ pc' = "getLabelGlobs"
    /\ UNCHANGED <<inputs, prNumber, action, changedFiles, configObject, labelGlobs,
                   idx, labels_to_add, labels_to_remove, replaceCalls, submitted,
                   failed, message, again>>

GetPrInfoFails ==
    /\ pc = "getPrInfo"
    /\ \E e \in ProviderErrors : Catch(e)
    /\ UNCHANGED <<inputs, prNumber, action, changedFiles, prTitle, current_labels,
                   mergeable, configObject, labelGlobs, idx, labels_to_add,
                   labels_to_remove, replaceCalls, submitted, again>>

\* fetchContent rejects
FetchContentFails ==
    /\ pc = "getLabelGlobs"
    /\ \E e \in ProviderErrors : Catch(e)
    /\ UNCHANGED <<inputs, prNumber, action, changedFiles, prTitle, current_labels,
                   mergeable, configObject, labelGlobs, idx, labels_to_add,
                   labels_to_remove, replaceCalls, submitted, again>>

\* yaml.safeLoad throws on text that is not YAML
SafeLoadFails ==
    /\ pc = "getLabelGlobs"
    /\ Catch(YamlError)
    /\ UNCHANGED <<inputs, prNumber, action, changedFiles, prTitle, current_labels,
                   mergeable, configObject, labelGlobs, idx, labels_to_add,
                   labels_to_remove, replaceCalls, submitted, again>>

\* the content loads as a mapping and getLabelGlobMapFromObject returns
GetLabelGlobs ==
    /\ pc = "getLabelGlobs"
    /\ \E cfg \in ConfigObjects :
          LET r == getLabelGlobMapFromObject(cfg)
          IN /\ ~r.threw
             /\ labelGlobs' = r.map
             /\ pc' = "loop"
    /\ UNCHANGED <<inputs, prNumber, action, changedFiles, prTitle, current_labels,
                   mergeable, configObject, idx, labels_to_add, labels_to_remove,
                   replaceCalls, submitted, failed, message, again>>

\* the content loads as a mapping and getLabelGlobMapFromObject throws
GetLabelGlobsThrows ==
    /\ pc = "getLabelGlobs"
    /\ \E cfg \in ConfigObjects :
          LET r == getLabelGlobMapFromObject(cfg)
          IN /\ r.threw
             /\ Catch(PatternError(r.label))
    /\ UNCHANGED <<inputs, prNumber, action, changedFiles, prTitle, current_labels,
                   mergeable, configObject, labelGlobs, idx, labels_to_add,
                   labels_to_remove, replaceCalls, submitted, again>>

\* one iteration of for (const [label, globs] of labelGlobs.entries())
Iterate ==
    /\ pc = "loop"
    /\ idx < Len(labelGlobs)
    /\ LET e == labelGlobs[idx + 1]
           r == evaluate(e.key, e.globs, changedFiles, prTitle, mergeable, action)
       IN IF r.threw
          THEN /\ Catch(GlobError)
               /\ UNCHANGED <<idx, labels_to_add, labels_to_remove>>
          ELSE /\ idx' = idx + 1
               /\ labels_to_add' = labels_to_add \o r.add
               /\ labels_to_remove' = labels_to_remove \o r.remove
               /\ UNCHANGED <<pc, failed, message>>
    /\ UNCHANGED <<inputs, prNumber, action, changedFiles, prTitle, current_labels,
                   mergeable, configObject, labelGlobs, replaceCalls, submitted,
                   again>>

\* faulty variant: only additions trigger the update
needsUpdate_addOnly(toAdd, toRemove) == Len(toAdd) > 0

\* if (labels_to_add.length > 0 || labels_to_remove.length > 0)
needsUpdate(toAdd, toRemove) == Len(toAdd) > 0 \/ Len(toRemove) > 0

\* the loop is over and both lists are empty: run() returns
NothingToUpdate ==
    /\ pc = "loop"
    /\ idx = Len(labelGlobs)
    /\ ~needsUpdate(labels_to_add, labels_to_remove)
    /\ pc' = "done"
    /\ UNCHANGED <<inputs, prNumber, action, changedFiles, prTitle, current_labels,
                   mergeable, configObject, labelGlobs, idx, labels_to_add,
                   labels_to_remove, replaceCalls, submitted, failed, message,
                   again>>

\* updateLabels up to its await: the replaceLabels request goes out
UpdateLabels ==
    /\ pc = "loop"
    /\ idx = Len(labelGlobs)
    /\ needsUpdate(labels_to_add, labels_to_remove)
    /\ submitted' = resulting_labels(current_labels, labels_to_add, labels_to_remove)
    /\ replaceCalls' = replaceCalls + 1
    /\ pc' = "replaceLabels"
    /\ UNCHANGED <<inputs, prNumber, action, changedFiles, prTitle, current_labels,
                   mergeable, configObject, labelGlobs, idx, labels_to_add,
                   labels_to_remove, failed, message, again>>

ReplaceLabelsReturns ==
    /\ pc = "replaceLabels"
    /\ pc' = "done"
    /\ UNCHANGED <<inputs, prNumber, action, changedFiles, prTitle, current_labels,
                   mergeable, configObject, labelGlobs, idx, labels_to_add,
                   labels_to_remove, replaceCalls, submitted, failed, message,
                   again>>

ReplaceLabelsFails ==
    /\ pc = "replaceLabels"
    /\ \E e \in ProviderErrors : Catch(e)
    /\ UNCHANGED <<inputs, prNumber, action, changedFiles, prTitle, current_labels,
                   mergeable, configObject, labelGlobs, idx, labels_to_add,
                   labels_to_remove, replaceCalls, submitted, again>>

Next ==
    \/ MissingInput
    \/ NoPrNumber
    \/ Begin
    \/ GetChangedFiles
    \/ GetChangedFilesFails
    \/ GetPrInfo
    \/ GetPrInfoFails
    \/ FetchContentFails
    \/ SafeLoadFails
    \/ GetLabelGlobs
    \/ GetLabelGlobsThrows
    \/ Iterate
    \/ NothingToUpdate
    \/ UpdateLabels
    \/ ReplaceLabelsReturns
    \/ ReplaceLabelsFails

Spec == Init /\ [][Next]_vars

(***************************************************************************)
(* getLabelGlobMapFromObject followed by the rule loop, as functions of a  *)
(* configuration and the pull request's facts                              *)
(***************************************************************************)
\* the for loop of run() over a whole map: the lists it leaves, the number of
\* entries it consumed, and whether checkGlobs threw
RECURSIVE loopFrom(_, _, _, _, _, _, _, _)
loopFrom(map, i, toAdd, toRemove, files, title, merge, act) ==
    IF i > Len(map)
    THEN [threw |-> FALSE, idx |-> i - 1, add |-> toAdd, remove |-> toRemove]
    ELSE LET r == evaluate(map[i].key, map[i].globs, files, title, merge, act)
         IN IF r.threw
            THEN [threw |-> TRUE, idx |-> i - 1, add |-> toAdd, remove |-> toRemove]
            ELSE loopFrom(map, i + 1, toAdd \o r.add, toRemove \o r.remove,
                          files, title, merge, act)

InitConfig ==
    /\ pc = "getLabelGlobMapFromObject"
    /\ inputs = TRUE
    /\ prNumber = 7
    /\ action \in Actions
    /\ changedFiles \in FileLists
    /\ prTitle \in Strings
    /\ current_labels = <<>>
    /\ mergeable \in Mergeables
    /\ configObject \in ConfigObjects
    /\ labelGlobs = <<>>
    /\ idx = 0
    /\ labels_to_add = <<>>
    /\ labels_to_remove = <<>>
    /\ replaceCalls = 0
    /\ submitted = <<>>
    /\ failed = FALSE
    /\ message = NoMessage
    /\ again = <<>>

ParseConfig ==
    /\ pc = "getLabelGlobMapFromObject"
    /\ LET r == getLabelGlobMapFromObject(configObject)
       IN /\ ~r.threw
          /\ labelGlobs' = r.map
          /\ pc' = "loop"
    /\ UNCHANGED <<inputs, prNumber, action, changedFiles, prTitle, current_labels,
                   mergeable, configObject, idx, labels_to_add, labels_to_remove,
                   replaceCalls, submitted, failed, message, again>>

ParseConfigThrows ==
    /\ pc = "getLabelGlobMapFromObject"
    /\ LET r == getLabelGlobMapFromObject(configObject)
       IN /\ r.threw
          /\ Catch(PatternError(r.label))
    /\ UNCHANGED <<inputs, prNumber, action, changedFiles, prTitle, current_labels,
                   mergeable, configObject, labelGlobs, idx, labels_to_add,
                   labels_to_remove, replaceCalls, submitted, again>>

EvaluateRules ==
    /\ pc = "loop"
    /\ LET r == loopFrom(labelGlobs, 1, <<>>, <<>>, changedFiles, prTitle,
                         mergeable, action)
       IN /\ ~r.threw
          /\ idx' = r.idx
          /\ labels_to_add' = r.add
          /\ labels_to_remove' = r.remove
          /\ pc' = "evaluated"
    /\ UNCHANGED <<inputs, prNumber, action, changedFiles, prTitle, current_labels,
                   mergeable, configObject, labelGlobs, replaceCalls, submitted,
                   failed, message, again>>

EvaluateRulesThrows ==
    /\ pc = "loop"
    /\ LET r == loopFrom(labelGlobs, 1, <<>>, <<>>, changedFiles, prTitle,
                         mergeable, action)
       IN /\ r.threw
          /\ idx' = r.idx
          /\ labels_to_add' = r.add
          /\ labels_to_remove' = r.remove
          /\ Catch(GlobError)
    /\ UNCHANGED <<inputs, prNumber, action, changedFiles, prTitle, current_labels,
                   mergeable, configObject, labelGlobs, replaceCalls, submitted,
                   again>>

NextConfig ==
    \/ ParseConfig
    \/ ParseConfigThrows
    \/ EvaluateRules
    \/ EvaluateRulesThrows

SpecConfig == InitConfig /\ [][NextConfig]_vars

(***************************************************************************)
(* updateLabels as a function of its three lists                           *)
(***************************************************************************)
ReconcileLabels == Labels \cup {"wip"}
ReconcileLists == SeqsUpTo(ReconcileLabels, MaxList)

InitReconcile ==
    /\ pc = "updateLabels"
    /\ inputs = TRUE
    /\ prNumber = 7
    /\ action = "opened"
    /\ changedFiles = <<>>
    /\ prTitle = <<>>
    /\ current_labels \in ReconcileLists
    /\ mergeable = "null"
    /\ configObject = <<>>
    /\ labelGlobs = <<>>
    /\ idx = 0
    /\ labels_to_add \in ReconcileLists
    /\ labels_to_remove \in ReconcileLists
    /\ replaceCalls = 0
    /\ submitted = <<>>
    /\ failed = FALSE
    /\ message = NoMessage
    /\ again = <<>>

\* updateLabels(client, prNumber, current_labels, labels_to_add, labels_to_remove)
CallUpdateLabels ==
    /\ pc = "updateLabels"
    /\ submitted' = resulting_labels(current_labels, labels_to_add, labels_to_remove)
    /\ replaceCalls' = replaceCalls + 1
    /\ pc' = "updated"
    /\ UNCHANGED <<inputs, prNumber, action, changedFiles, prTitle, current_labels,
                   mergeable, configObject, labelGlobs, idx, labels_to_add,
                   labels_to_remove, failed, message, again>>

\* updateLabels(client, prNumber, <the labels just submitted>, labels_to_add,
\* labels_to_remove)
CallUpdateLabelsAgain ==
    /\ pc = "updated"
    /\ again' = resulting_labels(submitted, labels_to_add, labels_to_remove)
    /\ replaceCalls' = replaceCalls + 1
    /\ pc' = "updatedAgain"
    /\ UNCHANGED <<inputs, prNumber, action, changedFiles, prTitle, current_labels,
                   mergeable, configObject, labelGlobs, idx, labels_to_add,
                   labels_to_remove, submitted, failed, message>>

NextReconcile ==
    \/ CallUpdateLabels
    \/ CallUpdateLabelsAgain

SpecReconcile == InitReconcile /\ [][NextReconcile]_vars

(***************************************************************************)
(* The rule loop and updateLabels over a Map<LabelerKey, string[]> whose   *)
(* keys carry the same label.  getLabelGlobMapFromObject builds one key    *)
(* per key of a YAML mapping, so run() itself never holds such a map.      *)
(***************************************************************************)
SameLabel == "bug"

\* the entries the parser builds for SameLabel from the well-formed bodies
SameLabelRules ==
    {[key |-> parseEntry(e).key, globs |-> parseEntry(e).globs] :
        e \in {x \in [label : {SameLabel}, body : CoreBodies] : ~parseEntry(x).threw}}

InitRules ==
    /\ pc = "loop"
    /\ inputs = TRUE
    /\ prNumber = 7
    /\ action = "synchronize"
    /\ changedFiles \in FileLists
    /\ prTitle \in Strings
    /\ current_labels \in LabelLists
    /\ mergeable \in Mergeables
    /\ configObject = <<>>
    /\ labelGlobs \in SeqsUpTo(SameLabelRules, MaxRules)
    /\ idx = 0
    /\ labels_to_add = <<>>
    /\ labels_to_remove = <<>>
    /\ replaceCalls = 0
    /\ submitted = <<>>
    /\ failed = FALSE
    /\ message = NoMessage
    /\ again = <<>>

NextRules ==
    \/ Iterate
    \/ NothingToUpdate
    \/ UpdateLabels
    \/ ReplaceLabelsReturns
    \/ ReplaceLabelsFails

SpecRules == InitRules /\ [][NextRules]_vars

(***************************************************************************)
(* Properties                                                              *)
(***************************************************************************)
Count(s, x) == Cardinality({i \in 1..Len(s) : s[i] = x})

\* some pattern matches some candidate
AnyMatch(patterns, candidates) ==
    \E i \in 1..Len(patterns), j \in 1..Len(candidates) :
        patterns[i].isString /\ Match(patterns[i].chars, candidates[j])

\* the rule is not evaluated in this run
Skipped(key) == key.opened_only /\ action # "opened"

ConditionKinds == {"filesChanged", "title", "mergeState"}
RecognisedTypes == ConditionKinds \cup {"alwaysRemove"}

\* the condition of a FilesChanged, Title or MergeState rule
Condition(e) ==
    CASE e.key.type = "filesChanged" -> AnyMatch(e.globs, changedFiles)
      [] e.key.type = "title" -> AnyMatch(e.globs, <<prTitle>>)
      [] e.key.type = "mergeState" -> mergeable \in {"false", "null"}
      [] OTHER -> FALSE

\* the decision a rule reaches: "add", "remove" or "none"
Decision(e) ==
    IF Skipped(e.key) THEN "none"
    ELSE IF e.key.type = "alwaysRemove" THEN "remove"
    ELSE IF e.key.type \in ConditionKinds
    THEN IF Condition(e) THEN "add"
         ELSE IF e.key.removable THEN "remove"
         ELSE "none"
    ELSE "none"

\* C1: the labels updateLabels submits to replaceLabels are
\* (current \cup labelsToAdd) \ labelsToRemove, hold no label twice, and hold
\* no label of labelsToRemove even when that label is also in labelsToAdd.
C1_SubmittedIsUnionMinusRemoved ==
    pc \in {"updated", "updatedAgain"} =>
        /\ Range(submitted) =
              (Range(current_labels) \cup Range(labels_to_add)) \ Range(labels_to_remove)
        /\ NoDup(submitted)
        /\ \A l \in Range(labels_to_add) \cap Range(labels_to_remove) :
              l \notin Range(submitted)

\* a label that is current, added and removed at once, next to one that stays
C1_Witness ==
    /\ pc = "updated"
    /\ \E l \in Range(labels_to_add) \cap Range(labels_to_remove) :
          l \in Range(current_labels)
    /\ submitted # <<>>

\* C2: an evaluated FilesChanged, Title or MergeState rule appends its label
\* to labelsToAdd only when its condition holds (a pattern matches a changed
\* file, a pattern matches the title, the PR is not mergeable or its
\* mergeability is unknown), to labelsToRemove only when the condition fails
\* and the rule is removable, and to neither list otherwise.
C2_RuleDecision ==
    \A j \in 1..idx :
        LET e == labelGlobs[j]
            l == e.key.label
        IN e.key.type \in ConditionKinds /\ ~Skipped(e.key) =>
              /\ Condition(e) =>
                    Count(labels_to_add, l) = 1 /\ Count(labels_to_remove, l) = 0
              /\ ~Condition(e) /\ e.key.removable =>
                    Count(labels_to_add, l) = 0 /\ Count(labels_to_remove, l) = 1
              /\ ~Condition(e) /\ ~e.key.removable =>
                    Count(labels_to_add, l) = 0 /\ Count(labels_to_remove, l) = 0

\* a MergeState rule adds its label on unknown mergeability and a removable
\* FilesChanged rule that matches nothing removes its label
C2_Witness ==
    /\ idx = 2
    /\ mergeable = "null"
    /\ \E j, k \in 1..idx :
          /\ labelGlobs[j].key.type = "mergeState"
          /\ ~Skipped(labelGlobs[j].key)
          /\ labelGlobs[j].key.label \in Range(labels_to_add)
          /\ labelGlobs[k].key.type = "filesChanged"
          /\ labelGlobs[k].key.removable
          /\ changedFiles # <<>>
          /\ labelGlobs[k].key.label \in Range(labels_to_remove)

\* C3: a rule with openedOnly, in a run whose action is not "opened",
\* appends nothing to labelsToAdd and nothing to labelsToRemove.
C3_OpenedOnlyContributesNothing ==
    \A j \in 1..idx :
        LET e == labelGlobs[j]
        IN e.key.opened_only /\ action # "opened" =>
              /\ Count(labels_to_add, e.key.label) = 0
              /\ Count(labels_to_remove, e.key.label) = 0

\* an openedOnly AlwaysRemove rule for a current label was consumed on a run
\* that is not "opened", and the run ended without an update
C3_Witness ==
    /\ pc = "done"
    /\ action = "synchronize"
    /\ idx = 1
    /\ labelGlobs[1].key.type = "alwaysRemove"
    /\ labelGlobs[1].key.opened_only
    /\ labelGlobs[1].key.label \in Range(current_labels)
    /\ replaceCalls = 0

\* C4: an evaluated AlwaysRemove rule appends its label to labelsToRemove and
\* never to labelsToAdd; the update is then made, the submitted labels exclude
\* that label and keep every current label that is not in labelsToRemove.
C4_AlwaysRemove ==
    \A j \in 1..idx :
        LET e == labelGlobs[j]
            l == e.key.label
        IN e.key.type = "alwaysRemove" /\ ~Skipped(e.key) =>
              /\ Count(labels_to_remove, l) = 1
              /\ Count(labels_to_add, l) = 0
              /\ pc = "done" /\ idx = Len(labelGlobs) => replaceCalls = 1
              /\ replaceCalls = 1 =>
                    /\ l \notin Range(submitted)
                    /\ \A c \in Range(current_labels) :
                          c \notin Range(labels_to_remove) => c \in Range(submitted)

\* {stale: {type: alwaysRemove}} on a PR labelled stale and bug leaves bug
C4_Witness ==
    /\ pc = "done"
    /\ ~failed
    /\ current_labels = <<"stale", "bug">>
    /\ Len(labelGlobs) = 1
    /\ labelGlobs[1].key.type = "alwaysRemove"
    /\ labelGlobs[1].key.label = "stale"
    /\ submitted = <<"bug">>

\* C5: replaceLabels is requested exactly once when the loop is over every rule
\* and labelsToAdd or labelsToRemove is not empty, and not at all otherwise.
C5_UpdateCalledOnceIffNeeded ==
    replaceCalls =
        IF /\ pc \in {"replaceLabels", "done"}
           /\ idx = Len(labelGlobs)
           /\ (labels_to_add # <<>> \/ labels_to_remove # <<>>)
        THEN 1 ELSE 0

\* a run that only removes labels makes the update
C5_Witness ==
    /\ pc = "done"
    /\ ~failed
    /\ Len(labelGlobs) = 2
    /\ labels_to_add = <<>>
    /\ labels_to_remove # <<>>
    /\ replaceCalls = 1

PatternErrors == {PatternError(l) : l \in Labels}

\* C7: a run that leaves the fetch of the changed files, of the PR or of the
\* configuration (its parsing included) by ending has failed with the error's
\* message and without any replaceLabels request; a failing replaceLabels
\* fails the run with its message; a failed run is over and an ended run
\* takes no further step.
C7_FailureAbortsTheRun ==
    [][/\ pc # "done"
       /\ failed' => pc' = "done" /\ message' # NoMessage
       /\ pc \in {"getChangedFiles", "getPrInfo"} /\ pc' = "done" =>
             failed' /\ replaceCalls' = 0 /\ message' \in ProviderErrors
       /\ pc = "getLabelGlobs" /\ pc' = "done" =>
             /\ failed'
             /\ replaceCalls' = 0
             /\ message' \in ProviderErrors \cup {YamlError} \cup PatternErrors
       /\ pc = "replaceLabels" /\ failed' => message' \in ProviderErrors
      ]_vars

\* the configuration did not parse after both fetches succeeded
C7_Witness ==
    /\ pc = "done"
    /\ failed
    /\ message = PatternError("stale")
    /\ changedFiles # <<>>
    /\ current_labels # <<>>
    /\ replaceCalls = 0

(***************************************************************************)
(* C6 and C8 relate the configuration to the map and to the lists          *)
(***************************************************************************)
\* a string, or a sequence whose elements are all strings
ValidPatterns(p) ==
    \/ p.kind = "string"
    \/ p.kind = "array" /\ \A i \in 1..Len(p.items) : p.items[i].isString

\* the trigger of a rule body: its type if a recognised string, else FilesChanged
Trigger(body) ==
    IF body.type.typeof = "string" /\ body.type.val \in RecognisedTypes
    THEN body.type.val
    ELSE "filesChanged"

Offending(entry) ==
    /\ ~ValidPatterns(entry.body.patterns)
    /\ Trigger(entry.body) \notin {"alwaysRemove", "mergeState"}

\* C6: once parsing is over, if some entry's patterns are neither a string nor
\* a sequence of strings and its trigger is neither AlwaysRemove nor
\* MergeState, the run has failed with an error naming such a label, no rule
\* was produced and none evaluated; otherwise there is one rule per entry.
C6_ParsingAllOrNothing ==
    pc # "getLabelGlobMapFromObject" =>
        IF \E i \in 1..Len(configObject) : Offending(configObject[i])
        THEN /\ failed
             /\ \E i \in 1..Len(configObject) :
                   /\ Offending(configObject[i])
                   /\ message = PatternError(configObject[i].label)
             /\ labelGlobs = <<>>
             /\ idx = 0
             /\ labels_to_add = <<>>
             /\ labels_to_remove = <<>>
        ELSE /\ message \notin PatternErrors
             /\ Len(labelGlobs) = Len(configObject)
             /\ \A i \in 1..Len(configObject) :
                   labelGlobs[i].key.label = configObject[i].label

\* the type field is absent, not a string, or a string that names no trigger
UnrecognisedType(body) ==
    body.type.typeof # "string" \/ body.type.val \notin RecognisedTypes

\* C8: an entry whose type is absent, not a string, or an unrecognised string
\* yields a rule with trigger FilesChanged, whose label is added when the rule
\* is evaluated and one of its patterns matches a changed file.
C8_UnrecognisedTypeIsFilesChanged ==
    pc = "evaluated" =>
        \A i \in 1..Len(configObject) :
            UnrecognisedType(configObject[i].body) =>
                /\ labelGlobs[i].key.type = "filesChanged"
                /\ (~Skipped(labelGlobs[i].key)
                      /\ AnyMatch(labelGlobs[i].globs, changedFiles))
                   => configObject[i].label \in Range(labels_to_add)

(***************************************************************************)
(* C9 and C10                                                              *)
(***************************************************************************)
\* rule j is the last rule that decides on its label, and an earlier rule of
\* the same label decided the opposite
LastOfConflict(j) ==
    /\ Decision(labelGlobs[j]) \in {"add", "remove"}
    /\ \A k \in (j + 1)..Len(labelGlobs) :
          labelGlobs[k].key.label = labelGlobs[j].key.label =>
             Decision(labelGlobs[k]) = "none"
    /\ \E i \in 1..(j - 1) :
          /\ labelGlobs[i].key.label = labelGlobs[j].key.label
          /\ Decision(labelGlobs[i]) \in {"add", "remove"}
          /\ Decision(labelGlobs[i]) # Decision(labelGlobs[j])

C10_ReconcileIdempotent ==
    pc = "updatedAgain" => again = submitted

\* a call that changed the labels, with a label both added and removed
C10_Witness ==
    /\ pc = "updatedAgain"
    /\ submitted # <<>>
    /\ submitted # current_labels
    /\ Range(labels_to_add) \cap Range(labels_to_remove) # {}

====
